---- MODULE Spec2Model ----
(***************************************************************************)
(* Task-Space-Region library of prpy (src/src/prpy/tsr/tsr.py): the TSR    *)
(* and TSRChain classes as a state machine over a heap of TSR objects and  *)
(* one chain.                                                              *)
(*                                                                         *)
(* Numbers.  A Python float is a record [nan, v]; v is a fixed-point       *)
(* integer counting thousandths, so EPSILON = 0.001 is 1 and pi is 3142.   *)
(* Transforms.  A 4x4 rigid transform is kept as <<s, t>>: the rotation    *)
(* about z by 0 (s = 1) or pi (s = -1) and the translation t along x.      *)
(* These matrices are closed under numpy.dot, which on them is             *)
(* <<s1*s2, t1 + s1*t2>>; the product does not commute.                    *)
(* Optional arguments.  None is <<>> and a given argument v is <<v>>.      *)
(***************************************************************************)
EXTENDS Integers, Sequences, FiniteSets, TLC

VARIABLES objs, chain, placed, call

vars == <<objs, chain, placed, call>>

\* ------------------------------------------------------------ constants

\* math.pi, in thousandths
PI == 3142

\* EPSILON = 0.001, in thousandths
EPSILON == 1

\* ------------------------------------------------------------ bounds

\* numpy.random.random_sample() returns one of k/NumSampleSteps, 0 <= k < NumSampleSteps
NumSampleSteps == 4

\* TSRs appended to the chain (the code sets no limit)
MaxChainLen == 2

\* ------------------------------------------------------------ values

None == <<>>

Some(v) == <<v>>

F(v) == [nan |-> FALSE, v |-> v]

NaN == [nan |-> TRUE, v |-> 0]

NANBW == [i \in 1..6 |-> NaN]

Ret(v) == [kind |-> "return", value |-> v]

Raise(exc, msg) == [kind |-> "raise", exc |-> exc, msg |-> msg]

PyVal(ty, v) == [ty |-> ty, v |-> v]

\* Python's == on two ints, two strings, or one of them against a 0-d ndarray
PyEq(a, b) == a.v = b.v

all(check) == \A i \in DOMAIN check : check[i]

eye4 == <<1, 0>>

Dot(A, B) == <<A[1] * B[1], A[2] + A[1] * B[2]>>

\* (x + pi) % (2*pi) - pi
Wrap(x) == ((x + PI) % (2 * PI)) - PI

\* kin.pose_to_H(kin.pose_from_xyzypr(xyzypr)): the x translation and the yaw
\* half-turn of the chart vector
Tw(xyzrpy) == <<IF Wrap(xyzrpy[6].v) = -PI THEN -1 ELSE 1, xyzrpy[1].v>>

\* ndarray.tolist() and numpy.array(list): an ndarray is kept plain, a list tagged
tolist(a) == [ty |-> "list", v |-> a]

numpy_array(l) == l.v

\* ------------------------------------------------------------ TSR

RangeCheck(Bw) == \E i \in 1..6 : Bw[i][2] - Bw[i][1] > 2 * PI + EPSILON

TSR_init(T0_w, Tw_e, Bw, manip, bodyandlink) ==
  IF Bw # None /\ RangeCheck(Bw[1])
  THEN Raise("ValueError", "Bw range must be within 2*PI")
  ELSE Ret([T0_w |-> IF T0_w = None THEN eye4 ELSE T0_w[1],
            Tw_e |-> IF Tw_e = None THEN eye4 ELSE Tw_e[1],
            Bw |-> IF Bw = None THEN [i \in 1..6 |-> <<0, 0>>] ELSE Bw[1],
            manipindex |-> IF manip.ty = "None" THEN PyVal("int", -1)
                           ELSE IF manip.ty = "Robot" THEN PyVal("int", manip.v)
                           ELSE manip,
            bodyandlink |-> bodyandlink])

\* one entry of xyzcheck (i <= 3) or of rpycheck (i > 3); a comparison with NaN is false
DofCheck(Bw, i, x) ==
  IF x.nan THEN FALSE
  ELSE IF i <= 3
       THEN (x.v + EPSILON >= Bw[i][1]) /\ (x.v - EPSILON <= Bw[i][2])
       ELSE (Wrap(x.v) + EPSILON >= Wrap(Bw[i][1]))
            /\ (Wrap(x.v) - EPSILON <= Wrap(Bw[i][2]))

TSR_is_valid(self, xyzrpy, ignoreNAN) ==
  [i \in 1..6 |-> DofCheck(self.Bw, i, xyzrpy[i]) \/ (ignoreNAN /\ xyzrpy[i].nan)]

\* the truth value Python asks of an ndarray in `not check`
ndarray_bool(a) ==
  IF Len(a) > 1
  THEN Raise("ValueError", "The truth value of an array with more than one element is ambiguous")
  ELSE Ret(Len(a) = 1 /\ a[1])

TSR_to_transform(self, xyzrpy) ==
  IF Len(xyzrpy) # 6 THEN Raise("ValueError", "vals must be of length 6")
  ELSE LET truth == ndarray_bool(TSR_is_valid(self, xyzrpy, FALSE)) IN
       IF truth.kind = "raise" THEN truth
       ELSE IF ~truth.value THEN Raise("ValueError", "Invalid xyzrpy")
       ELSE Ret(Dot(Dot(self.T0_w, Tw(xyzrpy)), self.Tw_e))

\* the values Bw[i,0] + (Bw[i,1] - Bw[i,0]) * random_sample() can take
SampleDraws(self, i) ==
  {F(self.Bw[i][1] + ((self.Bw[i][2] - self.Bw[i][1]) * k) \div NumSampleSteps) :
     k \in 0..(NumSampleSteps - 1)}

\* every 6-vector of draws, one per DOF
DrawVectors(self) ==
  {<<d1, d2, d3, d4, d5, d6>> :
     d1 \in SampleDraws(self, 1), d2 \in SampleDraws(self, 2),
     d3 \in SampleDraws(self, 3), d4 \in SampleDraws(self, 4),
     d5 \in SampleDraws(self, 5), d6 \in SampleDraws(self, 6)}

\* draws[i] is the value drawn for DOF i, used only where xyzrpy[i] is NaN
TSR_sample_xyzrpy(self, xyzrpy, draws) ==
  LET check == TSR_is_valid(self, xyzrpy, TRUE) IN
  IF ~all(check) THEN [kind |-> "raise", exc |-> "ValueError",
                       msg |-> "xyzrpy must be within bounds", check |-> check]
  ELSE Ret([i \in 1..6 |-> IF xyzrpy[i].nan THEN draws[i] ELSE xyzrpy[i]])

TSR_sample(self, xyzrpy, draws) ==
  LET s == TSR_sample_xyzrpy(self, xyzrpy, draws) IN
  IF s.kind = "raise" THEN s ELSE TSR_to_transform(self, s.value)

TSR_to_dict(self) ==
  [T0_w |-> tolist(self.T0_w),
   Tw_e |-> tolist(self.Tw_e),
   Bw |-> tolist(self.Bw),
   manipindex |-> PyVal("int", self.manipindex.v),
   bodyandlink |-> PyVal("str", self.bodyandlink.v)]

\* mutation of TSR_from_dict: Tw_e read from the T0_w key
TSR_from_dict_SwappedKey(x) ==
  IF "T0_w" \notin DOMAIN x THEN Raise("KeyError", "T0_w")
  ELSE TSR_init(Some(numpy_array(x.T0_w)),
                Some(numpy_array(x.T0_w)),
                Some(numpy_array(x.Bw)),
                PyVal("ndarray", x.manipindex.v),
                PyVal("ndarray", x.bodyandlink.v))

TSR_from_dict(x) ==
  IF "T0_w" \notin DOMAIN x THEN Raise("KeyError", "T0_w")
  ELSE TSR_init(Some(numpy_array(x.T0_w)),
                Some(numpy_array(x.Tw_e)),
                Some(numpy_array(x.Bw)),
                PyVal("ndarray", x.manipindex.v),
                PyVal("ndarray", x.bodyandlink.v))

\* ------------------------------------------------------------ TSRChain

TSRChain_init(sample_start, sample_goal, constrain, mimicbodyname, mimicbodyjoints) ==
  [sample_start |-> sample_start,
   sample_goal |-> sample_goal,
   constrain |-> constrain,
   mimicbodyname |-> mimicbodyname,
   mimicbodyjoints |-> IF mimicbodyjoints = None THEN <<>> ELSE mimicbodyjoints[1],
   TSRs |-> <<>>]

TSRChain_append(self, tsr) == [self EXCEPT !.TSRs = Append(@, tsr)]

\* mutation of TSRChain_is_valid: only a list shorter than the chain is refused
TSRChain_is_valid_ShorterOnly(heap, self, xyzrpy, ignoreNAN) ==
  IF Len(xyzrpy) < Len(self.TSRs)
  THEN [kind |-> "raise", exc |-> "TypeError",
        msg |-> "exceptions must derive from BaseException", nchecks |-> 0]
  ELSE [kind |-> "return",
        value |-> [idx \in 1..Len(self.TSRs) |->
                     TSR_is_valid(heap[self.TSRs[idx]], xyzrpy[idx], ignoreNAN)],
        nchecks |-> Len(self.TSRs)]

\* `raise('...')` raises TypeError: a str is not an exception.  nchecks counts the
\* TSR.is_valid calls made.
TSRChain_is_valid(heap, self, xyzrpy, ignoreNAN) ==
  IF Len(xyzrpy) # Len(self.TSRs)
  THEN [kind |-> "raise", exc |-> "TypeError",
        msg |-> "exceptions must derive from BaseException", nchecks |-> 0]
  ELSE [kind |-> "return",
        value |-> [idx \in 1..Len(self.TSRs) |->
                     TSR_is_valid(heap[self.TSRs[idx]], xyzrpy[idx], ignoreNAN)],
        nchecks |-> Len(self.TSRs)]

\* mutation of InvalidPoseError: a str raised, as on line 347
InvalidPoseError_StrRaised(check) ==
  [kind |-> "raise", exc |-> "TypeError",
   msg |-> "exceptions must derive from BaseException", check |-> check]

\* raise ValueError('Invalid xyzrpy', check)
InvalidPoseError(check) ==
  [kind |-> "raise", exc |-> "ValueError", msg |-> "Invalid xyzrpy", check |-> check]

\* mutation of FoldStart: the fold started from the identity
FoldStart_Identity(heap, self) == eye4

\* T0_w = self.TSRs[0].T0_w
FoldStart(heap, self) == heap[self.TSRs[1]].T0_w

\* the loop of lines 368-371 from index idx on, T0_w being the running transform
RECURSIVE Fold(_, _, _, _, _)
Fold(heap, self, xyzrpy, idx, T0_w) ==
  IF idx > Len(self.TSRs) THEN [out |-> Ret(T0_w), objs |-> heap]
  ELSE LET h1 == [heap EXCEPT ![self.TSRs[idx]].T0_w = T0_w]
           r == TSR_to_transform(h1[self.TSRs[idx]], xyzrpy[idx])
       IN IF r.kind = "raise" THEN [out |-> r, objs |-> h1]
          ELSE Fold(h1, self, xyzrpy, idx + 1, r.value)

TSRChain_to_transform(heap, self, xyzrpy) ==
  LET check == TSRChain_is_valid(heap, self, xyzrpy, FALSE) IN
  IF check.kind = "raise" THEN [out |-> check, objs |-> heap]
  ELSE IF \E idx \in 1..Len(self.TSRs) : ~all(check.value[idx])
       THEN [out |-> InvalidPoseError(check.value), objs |-> heap]
       ELSE IF Len(self.TSRs) = 0
            THEN [out |-> Raise("IndexError", "list index out of range"), objs |-> heap]
            ELSE Fold(heap, self, xyzrpy, 1, FoldStart(heap, self))

\* the lists of draw vectors for the first n TSRs of the chain, one vector per TSR
RECURSIVE DrawLists(_, _, _)
DrawLists(heap, self, n) ==
  IF n = 0 THEN {<<>>}
  ELSE {Append(l, d) : l \in DrawLists(heap, self, n - 1),
                       d \in DrawVectors(heap[self.TSRs[n]])}

ChainDraws(heap, self) == DrawLists(heap, self, Len(self.TSRs))

\* xyzrpy = None stands for [NANBW]*len(self.TSRs)
RECURSIVE SampleLoop(_, _, _, _, _, _)
SampleLoop(heap, self, xyzrpy, draws, idx, sample) ==
  IF idx > Len(self.TSRs) THEN Ret(sample)
  ELSE LET s == TSR_sample_xyzrpy(heap[self.TSRs[idx]], xyzrpy[idx], draws[idx]) IN
       IF s.kind = "raise" THEN s
       ELSE SampleLoop(heap, self, xyzrpy, draws, idx + 1, Append(sample, s.value))

TSRChain_sample_xyzrpy(heap, self, xyzrpy, draws) ==
  SampleLoop(heap, self,
             IF xyzrpy = None THEN [idx \in 1..Len(self.TSRs) |-> NANBW] ELSE xyzrpy[1],
             draws, 1, <<>>)

TSRChain_sample(heap, self, xyzrpy, draws) ==
  LET s == TSRChain_sample_xyzrpy(heap, self, xyzrpy, draws) IN
  IF s.kind = "raise" THEN [out |-> s, objs |-> heap]
  ELSE TSRChain_to_transform(heap, self, s.value)

TSRChain_to_dict(heap, self) ==
  [sample_goal |-> self.sample_goal,
   sample_start |-> self.sample_start,
   constrain |-> self.constrain,
   mimicbodyname |-> self.mimicbodyname,
   mimicbodyjoints |-> self.mimicbodyjoints,
   tsrs |-> [idx \in 1..Len(self.TSRs) |-> TSR_to_dict(heap[self.TSRs[idx]])]]

\* The chain returned holds new TSR objects: its TSRs are kept by value.
TSRChain_from_dict(x) ==
  LET made == [idx \in 1..Len(x.tsrs) |-> TSR_from_dict(x.tsrs[idx])] IN
  IF \E idx \in 1..Len(made) : made[idx].kind = "raise"
  THEN made[CHOOSE idx \in 1..Len(made) :
              /\ made[idx].kind = "raise"
              /\ \A j \in 1..(idx - 1) : made[j].kind = "return"]
  ELSE Ret([TSRChain_init(x.sample_start, x.sample_goal, x.constrain,
                          x.mimicbodyname, Some(x.mimicbodyjoints))
              EXCEPT !.TSRs = [idx \in 1..Len(made) |-> made[idx].value]])

\* json.dumps / json.loads and yaml.dump / yaml.safe_load: a text and the record it holds
dumps(fmt, record) == [fmt |-> fmt, text |-> record]

loads(fmt, text) ==
  IF text.fmt = fmt THEN Ret(text.text) ELSE Raise("ParseError", fmt)

TSRChain_from_json(x) ==
  LET x_dict == loads("json", x) IN
  IF x_dict.kind = "raise" THEN x_dict ELSE TSR_from_dict(x_dict.value)

TSRChain_from_yaml(x) ==
  LET x_dict == loads("yaml", x) IN
  IF x_dict.kind = "raise" THEN x_dict ELSE TSR_from_dict(x_dict.value)

\* ------------------------------------------------------------ inputs

TransRanges == {<<0, 0>>, <<-100, 250>>, <<0, 7000>>}

RotRanges ==
  {<<0, 0>>, <<-PI, PI>>, <<1571, 4712>>, <<-4712, -1571>>, <<0, 4000>>,
   <<-4000, 4000>>, <<0, 2 * PI + EPSILON>>, <<0, 2 * PI + EPSILON + 1>>, <<500, -500>>}

\* the box with range rt on translational DOF d, rr on rotational DOF d + 3, zero elsewhere
BwBox(d, rt, rr) ==
  [i \in 1..6 |-> IF i = d THEN rt ELSE IF i = d + 3 THEN rr ELSE <<0, 0>>]

BwInputs ==
  {None} \cup {Some(BwBox(d, rt, rr)) : d \in 1..3, rt \in TransRanges, rr \in RotRanges}

\* T0_w, Tw_e, manip, bodyandlink: all omitted; all given; some given
OtherInputs ==
  {<<None, None, PyVal("None", 0), PyVal("str", "NULL")>>,
   <<Some(<<-1, 2>>), Some(<<1, 1>>), PyVal("Robot", 1), PyVal("str", "herb wam7")>>,
   <<Some(<<1, 3>>), None, PyVal("int", 0), PyVal("str", "NULL")>>}

PoseVals == {-PI, -1571, 0, 250, 252, 2000, PI, 4000}

PoseAt(d, v) == [i \in 1..6 |-> IF i = d THEN F(v) ELSE F(0)]

PoseInputs == {PoseAt(d, v) : d \in 1..6, v \in PoseVals}

WrongLengthInputs == {[i \in 1..5 |-> F(0)], [i \in 1..7 |-> F(0)]}

PartialVals == {0, 252, 2000}

\* the partly specified inputs: one concrete DOF, NaN on the other five
PartialAt(d, v) == [i \in 1..6 |-> IF i = d THEN F(v) ELSE NaN]

PartialInputs == {PartialAt(d, v) : d \in 1..6, v \in PartialVals}

\* the TSR objects of the chain specification: a point, a box and a point off the origin
ChainTSRs ==
  <<TSR_init(Some(<<1, 3>>), Some(<<1, 1>>), None,
             PyVal("None", 0), PyVal("str", "NULL")).value,
    TSR_init(Some(<<-1, 2>>), None, Some(BwBox(1, <<-100, 250>>, <<0, 0>>)),
             PyVal("Robot", 1), PyVal("str", "herb wam7")).value,
    TSR_init(None, Some(<<-1, 4>>), Some(BwBox(1, <<250, 250>>, <<0, 0>>)),
             PyVal("int", 0), PyVal("str", "NULL")).value>>

ChainInits ==
  {TSRChain_init(FALSE, FALSE, FALSE, "NULL", None),
   TSRChain_init(TRUE, FALSE, TRUE, "fridge", Some(<<0, 1>>))}

\* the pose lists of n - 1, n and n + 1 poses: PoseAt(1, 0) everywhere, or everywhere
\* but at one position, which holds PoseAt(1, 250) or NANBW
PoseLists(n) ==
  UNION {{[i \in 1..k |-> PoseAt(1, 0)]}
         \cup {[i \in 1..k |-> IF i = j THEN q ELSE PoseAt(1, 0)] :
                 j \in 1..k, q \in {PoseAt(1, 250), NANBW}} :
         k \in {m \in (n - 1)..(n + 1) : m >= 0}}

\* the lists of n TSR objects of ChainTSRs, an object allowed at several positions
RECURSIVE TSRLists(_)
TSRLists(n) ==
  IF n = 0 THEN {<<>>}
  ELSE {Append(l, tsr) : l \in TSRLists(n - 1), tsr \in DOMAIN ChainTSRs}

\* a chain of 1..MaxChainLen TSRs with one pose per TSR, each pose 0 or 0.25 along x
ThreadInputs ==
  UNION {TSRLists(n) \X [1..n -> {PoseAt(1, 0), PoseAt(1, 250)}] : n \in 1..MaxChainLen}

\* the frame of one TSRChain.to_transform computation: its arguments, the line it
\* is about to execute, its locals idx and T0_w, and its outcome once it is done
Thread(in) ==
  [self |-> [TSRChain_init(FALSE, FALSE, FALSE, "NULL", None) EXCEPT !.TSRs = in[1]],
   xyzrpy |-> in[2], pc |-> "363", idx |-> 0, T0_w |-> eye4, out |-> [kind |-> "none"]]

\* ------------------------------------------------------------ actions

\* TSR(T0_w, Tw_e, Bw, manip, bodyandlink), the new object kept when none is raised
TSRNew ==
  \E Bw \in BwInputs, other \in OtherInputs :
    /\ objs = <<>>
    /\ LET out == TSR_init(other[1], other[2], Bw, other[3], other[4]) IN
       /\ objs' = IF out.kind = "return" THEN <<out.value>> ELSE objs
       /\ call' = [op |-> "TSR", Bw |-> Bw, out |-> out]
    /\ UNCHANGED <<chain, placed>>

TSRIsValid ==
  \E self \in DOMAIN objs :
    \E arg \in (PoseInputs \X {FALSE}) \cup ({NANBW} \X BOOLEAN) :
      /\ call' = [op |-> "TSR.is_valid", self |-> self, xyzrpy |-> arg[1],
                  ignoreNAN |-> arg[2],
                  out |-> Ret(TSR_is_valid(objs[self], arg[1], arg[2]))]
      /\ UNCHANGED <<objs, chain, placed>>

TSRToTransform ==
  \E self \in DOMAIN objs, xyzrpy \in PoseInputs \cup WrongLengthInputs :
    /\ call' = [op |-> "TSR.to_transform", self |-> self, xyzrpy |-> xyzrpy,
                out |-> TSR_to_transform(objs[self], xyzrpy)]
    /\ UNCHANGED <<objs, chain, placed>>

TSRSampleXyzrpy ==
  \E self \in DOMAIN objs : \E draws \in DrawVectors(objs[self]) :
    /\ call' = [op |-> "TSR.sample_xyzrpy", self |-> self, xyzrpy |-> NANBW,
                out |-> TSR_sample_xyzrpy(objs[self], NANBW, draws)]
    /\ UNCHANGED <<objs, chain, placed>>

\* sample_xyzrpy(xyzrpy) with some DOFs given and the others NaN
TSRSamplePartial ==
  \E self \in DOMAIN objs, xyzrpy \in PartialInputs :
    \E draws \in DrawVectors(objs[self]) :
      /\ call' = [op |-> "TSR.sample_xyzrpy", self |-> self, xyzrpy |-> xyzrpy,
                  out |-> TSR_sample_xyzrpy(objs[self], xyzrpy, draws)]
      /\ UNCHANGED <<objs, chain, placed>>

TSRSample ==
  \E self \in DOMAIN objs : \E draws \in DrawVectors(objs[self]) :
    /\ call' = [op |-> "TSR.sample", self |-> self, xyzrpy |-> NANBW,
                out |-> TSR_sample(objs[self], NANBW, draws)]
    /\ UNCHANGED <<objs, chain, placed>>

\* TSR.from_dict(t.to_dict())
TSRRoundTrip ==
  \E self \in DOMAIN objs :
    /\ call' = [op |-> "TSR.from_dict", self |-> self,
                out |-> TSR_from_dict(TSR_to_dict(objs[self]))]
    /\ UNCHANGED <<objs, chain, placed>>

\* placed records the T0_w each TSR had when it was appended
ChainAppend ==
  \E tsr \in DOMAIN objs :
    /\ Len(chain.TSRs) < MaxChainLen
    /\ chain' = TSRChain_append(chain, tsr)
    /\ placed' = Append(placed, objs[tsr].T0_w)
    /\ call' = [op |-> "TSRChain.append", tsr |-> tsr]
    /\ UNCHANGED objs

ChainIsValid ==
  \E xyzrpy \in PoseLists(Len(chain.TSRs)), ignoreNAN \in BOOLEAN :
    /\ call' = [op |-> "TSRChain.is_valid", xyzrpy |-> xyzrpy, ignoreNAN |-> ignoreNAN,
                out |-> TSRChain_is_valid(objs, chain, xyzrpy, ignoreNAN)]
    /\ UNCHANGED <<objs, chain, placed>>

\* pre is the heap the call started from
ChainToTransform ==
  \E xyzrpy \in PoseLists(Len(chain.TSRs)) :
    LET r == TSRChain_to_transform(objs, chain, xyzrpy) IN
    /\ objs' = r.objs
    /\ call' = [op |-> "TSRChain.to_transform", xyzrpy |-> xyzrpy, pre |-> objs,
                out |-> r.out]
    /\ UNCHANGED <<chain, placed>>

ChainSampleXyzrpy ==
  \E draws \in ChainDraws(objs, chain) :
    /\ call' = [op |-> "TSRChain.sample_xyzrpy",
                out |-> TSRChain_sample_xyzrpy(objs, chain, None, draws)]
    /\ UNCHANGED <<objs, chain, placed>>

ChainSample ==
  \E draws \in ChainDraws(objs, chain) :
    LET r == TSRChain_sample(objs, chain, None, draws) IN
    /\ objs' = r.objs
    /\ call' = [op |-> "TSRChain.sample", pre |-> objs, out |-> r.out]
    /\ UNCHANGED <<chain, placed>>

\* TSRChain.from_dict(c.to_dict()), from_json(c.to_json()), from_yaml(c.to_yaml())
ChainRoundTrip ==
  \E fmt \in {"dict", "json", "yaml"} :
    LET d == TSRChain_to_dict(objs, chain) IN
    /\ call' = [op |-> "TSRChain.from", fmt |-> fmt,
                out |-> IF fmt = "dict" THEN TSRChain_from_dict(d)
                        ELSE IF fmt = "json" THEN TSRChain_from_json(dumps("json", d))
                        ELSE TSRChain_from_yaml(dumps("yaml", d))]
    /\ UNCHANGED <<objs, chain, placed>>

\* thread 1 has written the T0_w of a non-first TSR of its chain that the chain of
\* thread 2 holds too, and has not yet made the TSR.to_transform call that reads it
Parked ==
  LET t == call.th[1] IN
  /\ t.pc = "371"
  /\ t.idx >= 2
  /\ \E j \in 1..Len(call.th[2].self.TSRs) : call.th[2].self.TSRs[j] = t.self.TSRs[t.idx]

\* a step of thread p follows the schedule in which thread 2 runs, from start to end,
\* while thread 1 is parked, or after thread 1 when thread 1 never parks
Scheduled(p) ==
  IF p = 1 THEN ~Parked \/ call.th[2].pc = "done"
  ELSE Parked \/ call.th[1].pc = "done"

\* thread p moves to frame t; named records that every step so far was scheduled
Step(p, t) ==
  call' = [call EXCEPT !.th[p] = t, !.named = @ /\ Scheduled(p)]

\* lines 363-366: check = self.is_valid(xyzrpy), then the loop over check
RaceCheck ==
  \E p \in 1..2 :
    LET t == call.th[p]
        check == TSRChain_is_valid(objs, t.self, t.xyzrpy, FALSE)
    IN /\ t.pc = "363"
       /\ Step(p, IF check.kind = "raise"
                  THEN [t EXCEPT !.pc = "done", !.out = check]
                  ELSE IF \E idx \in 1..Len(t.self.TSRs) : ~all(check.value[idx])
                       THEN [t EXCEPT !.pc = "done", !.out = InvalidPoseError(check.value)]
                       ELSE [t EXCEPT !.pc = "367"])
       /\ UNCHANGED <<objs, chain, placed>>

\* line 367: T0_w = self.TSRs[0].T0_w
RaceStart ==
  \E p \in 1..2 :
    LET t == call.th[p] IN
    /\ t.pc = "367"
    /\ Step(p, IF Len(t.self.TSRs) = 0
               THEN [t EXCEPT !.pc = "done",
                              !.out = Raise("IndexError", "list index out of range")]
               ELSE [t EXCEPT !.pc = "368", !.idx = 1, !.T0_w = FoldStart(objs, t.self)])
    /\ UNCHANGED <<objs, chain, placed>>

\* lines 368-370: the next TSR's T0_w is written; line 373 when the loop is over
RaceWrite ==
  \E p \in 1..2 :
    LET t == call.th[p] IN
    /\ t.pc = "368"
    /\ IF t.idx > Len(t.self.TSRs)
       THEN /\ Step(p, [t EXCEPT !.pc = "done", !.out = Ret(t.T0_w)])
            /\ UNCHANGED objs
       ELSE /\ objs' = [objs EXCEPT ![t.self.TSRs[t.idx]].T0_w = t.T0_w]
            /\ Step(p, [t EXCEPT !.pc = "371"])
    /\ UNCHANGED <<chain, placed>>

\* line 371: T0_w = tsr_current.to_transform(xyzrpy[idx]), which reads the T0_w the
\* TSR holds at this moment (line 80)
RaceCall ==
  \E p \in 1..2 :
    LET t == call.th[p]
        r == TSR_to_transform(objs[t.self.TSRs[t.idx]], t.xyzrpy[t.idx])
    IN /\ t.pc = "371"
       /\ Step(p, IF r.kind = "raise"
                  THEN [t EXCEPT !.pc = "done", !.out = r]
                  ELSE [t EXCEPT !.pc = "368", !.idx = @ + 1, !.T0_w = r.value])
       /\ UNCHANGED <<objs, chain, placed>>

\* ------------------------------------------------------------ specifications

\* one chain and the TSR objects appended to it
Init ==
  /\ objs = ChainTSRs
  /\ chain \in ChainInits
  /\ placed = <<>>
  /\ call = [op |-> "init"]

Next ==
  \/ ChainAppend
  \/ ChainIsValid
  \/ ChainToTransform
  \/ ChainSampleXyzrpy
  \/ ChainSample
  \/ ChainRoundTrip

Spec == Init /\ [][Next]_vars

\* one TSR object and the calls made on it
InitTSR ==
  /\ objs = <<>>
  /\ chain = TSRChain_init(FALSE, FALSE, FALSE, "NULL", None)
  /\ placed = <<>>
  /\ call = [op |-> "init"]

NextTSR ==
  \/ TSRNew
  \/ TSRIsValid
  \/ TSRToTransform
  \/ TSRSampleXyzrpy
  \/ TSRSample
  \/ TSRRoundTrip

SpecTSR == InitTSR /\ [][NextTSR]_vars

\* one TSR object sampled from partly specified inputs
NextSample ==
  \/ TSRNew
  \/ TSRSamplePartial

SpecSample == InitTSR /\ [][NextSample]_vars

\* two TSRChain.to_transform computations over the same TSR objects, interleaved
\* line by line
InitRace ==
  /\ objs = ChainTSRs
  /\ chain = TSRChain_init(FALSE, FALSE, FALSE, "NULL", None)
  /\ placed = <<>>
  /\ \E in1 \in ThreadInputs, in2 \in ThreadInputs :
       call = [op |-> "race", th |-> <<Thread(in1), Thread(in2)>>, named |-> TRUE]

NextRace ==
  \/ RaceCheck
  \/ RaceStart
  \/ RaceWrite
  \/ RaceCall

SpecRace == InitRace /\ [][NextRace]_vars

\* ------------------------------------------------------------ claims

\* the chain's TSRs are distinct objects
DistinctTSRs ==
  \A i, j \in 1..Len(chain.TSRs) : i # j => chain.TSRs[i] # chain.TSRs[j]

\* the pose list of the last TSRChain.to_transform call has one pose per TSR
PoseListFits == Len(call.xyzrpy) = Len(chain.TSRs)

\* pose i of the last TSRChain.to_transform call is valid for TSR i on all six DOFs
PoseValidAt(i) == all(TSR_is_valid(call.pre[chain.TSRs[i]], call.xyzrpy[i], FALSE))

\* the transform of element i of the left-to-right fold, from the heap before the call
RECURSIVE Folded(_)
Folded(i) ==
  LET tsr == call.pre[chain.TSRs[i]] IN
  Dot(Dot(IF i = 1 THEN tsr.T0_w ELSE Folded(i - 1), Tw(call.xyzrpy[i])), tsr.Tw_e)

\* C1: on a chain of n >= 1 distinct TSRs and n valid poses, TSRChain.to_transform
\* returns the last element's transform of the left-to-right fold, and afterwards
\* every TSR i >= 1 stores as T0_w the transform computed for TSR i-1.
C1_LeftFold ==
  (/\ call.op = "TSRChain.to_transform"
   /\ Len(chain.TSRs) >= 1
   /\ DistinctTSRs
   /\ PoseListFits
   /\ \A i \in 1..Len(chain.TSRs) : PoseValidAt(i))
  => /\ call.out.kind = "return"
     /\ call.out.value = Folded(Len(chain.TSRs))
     /\ \A i \in 2..Len(chain.TSRs) : objs[chain.TSRs[i]].T0_w = Folded(i - 1)

\* C2: after any sequence of chain calls, the first TSR of the chain stores the T0_w
\* it had when it was appended, also when one TSR object is appended more than once.
C2_FirstT0wKept ==
  Len(chain.TSRs) >= 1 => objs[chain.TSRs[1]].T0_w = placed[1]

\* a fold was started on a chain that holds one TSR object at both positions
C2_Witness ==
  /\ call.op = "TSRChain.to_transform"
  /\ Len(chain.TSRs) = 2
  /\ chain.TSRs[1] = chain.TSRs[2]
  /\ PoseListFits
  /\ \A i \in 1..2 : PoseValidAt(i)
  /\ call.out.kind = "raise"
  /\ call.out.exc = "ValueError"

\* C3: TSR(Bw) raises exactly when some rotational DOF has max - min > 2*pi + EPSILON,
\* whatever the translational widths; an omitted Bw is accepted.
C3_RotationalRangeOnly ==
  call.op = "TSR" =>
    (call.out.kind = "raise" <=>
       (/\ call.Bw # None
        /\ \E i \in 4..6 : call.Bw[1][i][2] - call.Bw[1][i][1] > 2 * PI + EPSILON))

\* C4: every vector TSR.sample_xyzrpy returns for the all-NaN input, on a TSR whose
\* bounds have min <= max, passes TSR.is_valid on all six DOFs.
C4_SamplesValid ==
  (/\ call.op = "TSR.sample_xyzrpy"
   /\ call.out.kind = "return"
   /\ \A i \in 1..6 : objs[call.self].Bw[i][1] <= objs[call.self].Bw[i][2])
  => all(TSR_is_valid(objs[call.self], call.out.value, FALSE))

\* C5: for a rotational DOF with min <= max and max - min <= 2*pi, TSR.is_valid is
\* true on that DOF for every angle v with min <= v <= max.
C5_InRangeAngleValid ==
  call.op = "TSR.is_valid" =>
    \A i \in 4..6 :
      LET lo == objs[call.self].Bw[i][1]
          hi == objs[call.self].Bw[i][2]
          x == call.xyzrpy[i]
      IN (lo <= hi /\ hi - lo <= 2 * PI /\ ~x.nan /\ lo <= x.v /\ x.v <= hi)
         => call.out.value[i]

\* C6: TSR.to_transform returns T0_w * Tw(pose6) * Tw_e for a 6-vector valid on all
\* six DOFs, and raises ValueError for any other vector.
C6_ToTransformContract ==
  call.op = "TSR.to_transform" =>
    LET tsr == objs[call.self] IN
    IF Len(call.xyzrpy) = 6 /\ all(TSR_is_valid(tsr, call.xyzrpy, FALSE))
    THEN /\ call.out.kind = "return"
         /\ call.out.value = Dot(Dot(tsr.T0_w, Tw(call.xyzrpy)), tsr.Tw_e)
    ELSE /\ call.out.kind = "raise"
         /\ call.out.exc = "ValueError"

\* C7: TSRChain.to_transform with a pose that fails is_valid, at any position, raises
\* ValueError and leaves every TSR of the heap as it was before the call.
C7_InvalidPoseRejected ==
  (/\ call.op = "TSRChain.to_transform"
   /\ PoseListFits
   /\ \E i \in 1..Len(chain.TSRs) : ~PoseValidAt(i))
  => /\ call.out.kind = "raise"
     /\ call.out.exc = "ValueError"
     /\ objs = call.pre

\* the last pose of a two-TSR chain is the invalid one
C7_Witness ==
  /\ call.op = "TSRChain.to_transform"
  /\ Len(chain.TSRs) = 2
  /\ PoseListFits
  /\ PoseValidAt(1)
  /\ ~PoseValidAt(2)
  /\ call.out.kind = "raise"
  /\ objs = call.pre

\* C8: TSRChain.is_valid raises, before any per-element check, when the list and the
\* chain differ in length; otherwise entry i of its result is
\* TSRs[i].is_valid(pose_list[i], ignoreNAN).
C8_ChainIsValid ==
  call.op = "TSRChain.is_valid" =>
    IF Len(call.xyzrpy) # Len(chain.TSRs)
    THEN call.out.kind = "raise" /\ call.out.nchecks = 0
    ELSE /\ call.out.kind = "return"
         /\ Len(call.out.value) = Len(chain.TSRs)
         /\ \A i \in 1..Len(chain.TSRs) :
              call.out.value[i]
                = TSR_is_valid(objs[chain.TSRs[i]], call.xyzrpy[i], call.ignoreNAN)

\* a list longer than a chain that holds TSRs was refused
C8_Witness ==
  /\ call.op = "TSRChain.is_valid"
  /\ Len(chain.TSRs) >= 1
  /\ Len(call.xyzrpy) > Len(chain.TSRs)
  /\ call.out.kind = "raise"

\* C9: TSR.from_dict(t.to_dict()) succeeds with T0_w, Tw_e and Bw equal to t's,
\* manipindex and bodyandlink equal to t's, and the same to_dict as t.
C9_DictRoundTrip ==
  call.op = "TSR.from_dict" =>
    LET t == objs[call.self] IN
    /\ call.out.kind = "return"
    /\ call.out.value.T0_w = t.T0_w
    /\ call.out.value.Tw_e = t.Tw_e
    /\ call.out.value.Bw = t.Bw
    /\ PyEq(call.out.value.manipindex, t.manipindex)
    /\ PyEq(call.out.value.bodyandlink, t.bodyandlink)
    /\ TSR_to_dict(call.out.value) = TSR_to_dict(t)

\* the TSR taken through the dictionary has no default field
C9_Witness ==
  /\ call.op = "TSR.from_dict"
  /\ call.out.kind = "return"
  /\ objs[call.self].T0_w # eye4
  /\ objs[call.self].Tw_e # eye4
  /\ objs[call.self].T0_w # objs[call.self].Tw_e
  /\ \E i \in 1..6 : objs[call.self].Bw[i] # <<0, 0>>
  /\ objs[call.self].manipindex.v # -1
  /\ objs[call.self].bodyandlink.v # "NULL"

\* C10: from_dict(to_dict()), from_json(to_json()) and from_yaml(to_yaml()) of a
\* chain each return a chain with the same flags, mimic body fields and TSR records.
C10_ChainRoundTrip ==
  call.op = "TSRChain.from" =>
    /\ call.out.kind = "return"
    /\ "TSRs" \in DOMAIN call.out.value
    /\ call.out.value.sample_start = chain.sample_start
    /\ call.out.value.sample_goal = chain.sample_goal
    /\ call.out.value.constrain = chain.constrain
    /\ call.out.value.mimicbodyname = chain.mimicbodyname
    /\ call.out.value.mimicbodyjoints = chain.mimicbodyjoints
    /\ [i \in 1..Len(call.out.value.TSRs) |-> TSR_to_dict(call.out.value.TSRs[i])]
         = [i \in 1..Len(chain.TSRs) |-> TSR_to_dict(objs[chain.TSRs[i]])]

\* concrete value x lies outside the range of DOF i, by more than the tolerance
OutsideBound(Bw, i, x) ==
  ~x.nan /\ (x.v + EPSILON < Bw[i][1] \/ x.v - EPSILON > Bw[i][2])

\* C11: on a TSR whose bounds have min <= max, TSR.sample_xyzrpy with a partly
\* specified input raises the bounds error, carrying the per-DOF check vector taken
\* with NaN entries ignored, if some concrete value lies outside its DOF's range;
\* otherwise it returns a 6-vector that keeps every concrete value at its position
\* and holds at every NaN position i a value v with Bw[i,0] <= v <= Bw[i,1].
C11_PartialSample ==
  (/\ call.op = "TSR.sample_xyzrpy"
   /\ \E i \in 1..6 : ~call.xyzrpy[i].nan
   /\ \A i \in 1..6 : objs[call.self].Bw[i][1] <= objs[call.self].Bw[i][2])
  => LET Bw == objs[call.self].Bw IN
     IF \E i \in 1..6 : OutsideBound(Bw, i, call.xyzrpy[i])
     THEN /\ call.out.kind = "raise"
          /\ call.out.exc = "ValueError"
          /\ call.out.check = TSR_is_valid(objs[call.self], call.xyzrpy, TRUE)
     ELSE /\ call.out.kind = "return"
          /\ \A i \in 1..6 :
               IF call.xyzrpy[i].nan
               THEN /\ ~call.out.value[i].nan
                    /\ Bw[i][1] <= call.out.value[i].v
                    /\ call.out.value[i].v <= Bw[i][2]
               ELSE call.out.value[i] = call.xyzrpy[i]

\* the TSRs of thread p's chain are distinct objects
ThreadDistinct(p) ==
  LET l == call.th[p].self.TSRs IN \A i, j \in 1..Len(l) : i # j => l[i] # l[j]

\* every pose of thread p is valid for its TSR on all six DOFs
ThreadValid(p) ==
  LET t == call.th[p] IN
  \A i \in 1..Len(t.self.TSRs) :
    all(TSR_is_valid(ChainTSRs[t.self.TSRs[i]], t.xyzrpy[i], FALSE))

\* the transform of element i of thread p's left-to-right fold, run alone
RECURSIVE AloneFolded(_, _)
AloneFolded(p, i) ==
  LET t == call.th[p]
      tsr == ChainTSRs[t.self.TSRs[i]]
  IN Dot(Dot(IF i = 1 THEN tsr.T0_w ELSE AloneFolded(p, i - 1), Tw(t.xyzrpy[i])), tsr.Tw_e)

\* the two chains hold exactly one TSR object in common, at non-first positions i
\* and j, and the two computations, run alone, write different T0_w values into it
SharedNonFirst(i, j) ==
  LET l1 == call.th[1].self.TSRs
      l2 == call.th[2].self.TSRs
  IN /\ i \in 2..Len(l1)
     /\ j \in 2..Len(l2)
     /\ l1[i] = l2[j]
     /\ \A a \in 1..Len(l1), b \in 1..Len(l2) : l1[a] = l2[b] => (a = i /\ b = j)
     /\ AloneFolded(1, i - 1) # AloneFolded(2, j - 1)

\* C12: two TSRChain.to_transform computations on chains of distinct TSRs and valid
\* poses that share a non-first TSR, into which they write different T0_w values,
\* interleaved so that the second computation runs between the first one's write of
\* the shared TSR's T0_w and its read inside TSR.to_transform: the first computation
\* returns a transform, different from the one it returns when run alone.
C12_RaceChangesResult ==
  (/\ call.op = "race"
   /\ call.named
   /\ call.th[1].pc = "done"
   /\ call.th[2].pc = "done"
   /\ ThreadDistinct(1) /\ ThreadDistinct(2)
   /\ ThreadValid(1) /\ ThreadValid(2)
   /\ \E i, j \in 2..MaxChainLen : SharedNonFirst(i, j))
  => /\ call.th[1].out.kind = "return"
     /\ call.th[1].out.value # AloneFolded(1, Len(call.th[1].self.TSRs))

\* the heap before the last TSRChain.to_transform call, but with T0_w = w held by
\* every TSR at a non-first position of the chain
HeapWith(w) ==
  [tsr \in DOMAIN call.pre |->
     IF \E i \in 2..Len(chain.TSRs) : chain.TSRs[i] = tsr
     THEN [call.pre[tsr] EXCEPT !.T0_w = w]
     ELSE call.pre[tsr]]

\* the T0_w values the TSRs of the chain store in heap
StoredT0w(heap) == [i \in 1..Len(chain.TSRs) |-> heap[chain.TSRs[i]].T0_w]

\* C13: on a chain of n >= 1 distinct TSRs and n valid poses, the outcome of
\* TSRChain.to_transform and the T0_w values stored afterwards are the same whatever
\* T0_w the non-first TSRs held before the call, and the same again when the call
\* is repeated with the same pose list.
C13_Repeatable ==
  (/\ call.op = "TSRChain.to_transform"
   /\ Len(chain.TSRs) >= 1
   /\ DistinctTSRs
   /\ PoseListFits
   /\ \A i \in 1..Len(chain.TSRs) : PoseValidAt(i))
  => /\ \A w \in {eye4, <<-1, 5>>} :
          LET r == TSRChain_to_transform(HeapWith(w), chain, call.xyzrpy) IN
          /\ r.out = call.out
          /\ StoredT0w(r.objs) = StoredT0w(objs)
     /\ LET again == TSRChain_to_transform(objs, chain, call.xyzrpy) IN
        /\ again.out = call.out
        /\ StoredT0w(again.objs) = StoredT0w(objs)

====
